---------------------------- MODULE Spec2Model ----------------------------
(* CacheLru (src/src/collections/cache_lru.rs): a bounded key -> value     *)
(* store with least-recently-used eviction.  The store is a HashMap from   *)
(* key to a list node and a doubly linked list of nodes between two        *)
(* sentinel nodes, dummy_tail (LRU end) and dummy_head (MRU end).          *)
(*                                                                         *)
(* The heap of Rc<RefCell<Node>> cells is a function from node ids to node *)
(* records; an Option is a set with at most one element ({} is None).      *)
EXTENDS Integers, Sequences, FiniteSets, TLC

(* ------------------------------ bounds -------------------------------- *)
MaxCap == 2
MaxKeys == 3
MaxValue == 1

KeyNames == <<"key1", "@dummy_head@", "@dummy_tail@", "key2", "key3", "key4">>
Keys == {KeyNames[i] : i \in 1..MaxKeys}
Values == 0..MaxValue
Capacities == 0..MaxCap

(* ------------------------------ the heap ------------------------------ *)
dummy_head == 1
dummy_tail == 2

Node(key, value) == [next |-> {}, prev |-> {}, value |-> value, key |-> key]

set_prev(nodes, self, node) == [nodes EXCEPT ![self].prev = {node}]

set_next(nodes, self, node) == [nodes EXCEPT ![self].next = {node}]

unwrap(opt) == CHOOSE x \in opt : TRUE

(* Rc::new: the new cell gets an address no live cell has. *)
fresh(nodes) ==
    CHOOSE n \in 1..(Cardinality(DOMAIN nodes) + 1) :
        /\ n \notin DOMAIN nodes
        /\ \A m \in 1..(n - 1) : m \in DOMAIN nodes

RECURSIVE referenced(_, _)
referenced(s, seen) ==
    LET more == UNION {s.nodes[n].next \cup s.nodes[n].prev : n \in seen}
        live == (seen \cup more) \cap DOMAIN s.nodes
    IN IF live = seen THEN seen ELSE referenced(s, live)

(* A cell is freed when its last Rc is dropped: what the store, its index  *)
(* and the links of live cells no longer refer to is gone.                 *)
drop_unreferenced(s) ==
    LET roots == {dummy_head, dummy_tail} \cup {s.cache[k] : k \in DOMAIN s.cache}
        live == referenced(s, roots \cap DOMAIN s.nodes)
    IN [s EXCEPT !.nodes = [n \in live |-> s.nodes[n]]]

(* ----------------------------- CacheLru ------------------------------- *)
(* new failing on a zero capacity. *)
new_reject_zero(cap) ==
    [cache |-> [k \in {} |-> 0],
     nodes |-> (dummy_head :> [Node("@dummy_head@", 0) EXCEPT !.prev = {dummy_tail}])
               @@ (dummy_tail :> [Node("@dummy_tail@", 0) EXCEPT !.next = {dummy_head}]),
     max_capacity |-> cap,
     panicked |-> (cap = 0)]

(* new putting the two sentinels into the index under their labels. *)
new_indexed_sentinels(cap) ==
    [cache |-> ("@dummy_head@" :> dummy_head) @@ ("@dummy_tail@" :> dummy_tail),
     nodes |-> (dummy_head :> [Node("@dummy_head@", 0) EXCEPT !.prev = {dummy_tail}])
               @@ (dummy_tail :> [Node("@dummy_tail@", 0) EXCEPT !.next = {dummy_head}]),
     max_capacity |-> cap,
     panicked |-> FALSE]

(* new leaving the two sentinels unlinked. *)
new_unlinked(cap) ==
    [cache |-> [k \in {} |-> 0],
     nodes |-> (dummy_head :> Node("@dummy_head@", 0))
               @@ (dummy_tail :> Node("@dummy_tail@", 0)),
     max_capacity |-> cap,
     panicked |-> FALSE]

new(cap) ==
    LET head0 == Node("@dummy_head@", 0)
        tail0 == Node("@dummy_tail@", 0)
        nodes0 == (dummy_head :> head0) @@ (dummy_tail :> tail0)
        nodes1 == set_prev(nodes0, dummy_head, dummy_tail)
        nodes2 == set_next(nodes1, dummy_tail, dummy_head)
    IN [cache |-> [k \in {} |-> 0],
        nodes |-> nodes2,
        max_capacity |-> cap,
        panicked |-> FALSE]

(* get_lru reading the MRU end instead of the LRU end. *)
get_lru_mru(s) == s.nodes[dummy_head].prev

(* The Option read by get_lru; its unwrap panics on None. *)
get_lru(s) == s.nodes[dummy_tail].next

(* The Option read by get_head; its unwrap panics on None. *)
get_head(s) == s.nodes[dummy_head].prev

panic(s) == [s EXCEPT !.panicked = TRUE]

(* remove relinking forwards only: next_node.prev is left as it was. *)
remove_one_way(s, node) ==
    IF s.panicked THEN s
    ELSE
    LET nd == s.nodes[node]
        s1 == [s EXCEPT !.cache = [k \in DOMAIN s.cache \ {nd.key} |-> s.cache[k]]]
    IN IF nd.prev = {} \/ nd.next = {} THEN panic(s1)
       ELSE drop_unreferenced(
              [s1 EXCEPT !.nodes = set_next(s1.nodes, unwrap(nd.prev), unwrap(nd.next))])

remove(s, node) ==
    IF s.panicked THEN s
    ELSE
    LET nd == s.nodes[node]
        s1 == [s EXCEPT !.cache = [k \in DOMAIN s.cache \ {nd.key} |-> s.cache[k]]]
    IN IF nd.prev = {} \/ nd.next = {} THEN panic(s1)
       ELSE LET prev_node == unwrap(nd.prev)
                next_node == unwrap(nd.next)
            IN  (* node stays borrowed while its neighbours are borrowed mutably *)
                IF prev_node = node \/ next_node = node THEN panic(s1)
                ELSE drop_unreferenced(
                       [s1 EXCEPT !.nodes =
                          set_prev(set_next(s1.nodes, prev_node, next_node),
                                   next_node, prev_node)])

(* remove_lru comparing against max_capacity + 1. *)
remove_lru_late(s) ==
    IF s.panicked THEN s
    ELSE IF Cardinality(DOMAIN s.cache) <= s.max_capacity + 1 THEN s
    ELSE IF get_lru(s) = {} THEN panic(s)
    ELSE remove(s, unwrap(get_lru(s)))

(* remove_lru comparing with < instead of <=. *)
remove_lru_early(s) ==
    IF s.panicked THEN s
    ELSE IF Cardinality(DOMAIN s.cache) < s.max_capacity THEN s
    ELSE IF get_lru(s) = {} THEN panic(s)
    ELSE remove(s, unwrap(get_lru(s)))

remove_lru(s) ==
    IF s.panicked THEN s
    ELSE IF Cardinality(DOMAIN s.cache) <= s.max_capacity THEN s
    ELSE IF get_lru(s) = {} THEN panic(s)
    ELSE remove(s, unwrap(get_lru(s)))

(* insert from the read of the head node to the update of the index: link *)
(* a new cell at the MRU end and index it.                                 *)
link(s1, key, value) ==
    IF s1.panicked THEN s1
    ELSE IF get_head(s1) = {} THEN panic(s1)
    ELSE
    LET head_node == unwrap(get_head(s1))
        new_head_node == fresh(s1.nodes)
        cell == [next |-> {dummy_head}, prev |-> {head_node},
                 value |-> value, key |-> key]
        nodes1 == (new_head_node :> cell) @@ s1.nodes
        nodes2 == set_next(nodes1, head_node, new_head_node)
        nodes3 == set_prev(nodes2, dummy_head, new_head_node)
        cache1 == [k \in DOMAIN s1.cache \cup {key} |->
                     IF k = key THEN new_head_node ELSE s1.cache[k]]
    IN drop_unreferenced([s1 EXCEPT !.nodes = nodes3, !.cache = cache1])

(* insert after the detach of a resident node: link, index, and evict on   *)
(* overflow.                                                               *)
link_at_head(s1, key, value) == remove_lru(link(s1, key, value))

(* insert overwriting the value of a resident key in place, without      *)
(* moving its node.                                                        *)
insert_in_place(s, key, value) ==
    IF key \in DOMAIN s.cache
    THEN [s EXCEPT !.nodes[s.cache[key]].value = value]
    ELSE link_at_head(s, key, value)

(* insert re-linking a resident key with the value it already had. *)
insert_keep_old(s, key, value) ==
    IF key \in DOMAIN s.cache
    THEN link_at_head(remove(s, s.cache[key]), key,
                      s.nodes[s.cache[key]].value)
    ELSE link_at_head(s, key, value)

(* insert without the detach of the resident node. *)
insert_no_detach(s, key, value) == link_at_head(s, key, value)

insert(s, key, value) ==
    link_at_head(IF key \in DOMAIN s.cache THEN remove(s, s.cache[key]) ELSE s,
                 key, value)

(* get returning the value without promoting the node. *)
get_peek(s, key) ==
    IF key \in DOMAIN s.cache
    THEN [store |-> s, ret |-> {s.nodes[s.cache[key]].value}]
    ELSE [store |-> s, ret |-> {}]

(* get inserting a default value for a key it does not find. *)
get_or_default(s, key) ==
    IF key \notin DOMAIN s.cache THEN [store |-> insert(s, key, 0), ret |-> {}]
    ELSE [store |-> insert(remove(s, s.cache[key]), key, s.nodes[s.cache[key]].value),
          ret |-> {s.nodes[s.cache[key]].value}]

(* get detaching the node at the LRU end instead of the node it found. *)
get_detach_lru(s, key) ==
    IF key \notin DOMAIN s.cache THEN [store |-> s, ret |-> {}]
    ELSE [store |-> insert(remove(s, unwrap(get_lru(s))), key,
                           s.nodes[s.cache[key]].value),
          ret |-> {s.nodes[s.cache[key]].value}]

(* get returns the store it leaves and the Option it returns. *)
get(s, key) ==
    IF key \notin DOMAIN s.cache THEN [store |-> s, ret |-> {}]
    ELSE LET node == s.cache[key]
             value == s.nodes[node].value
         IN [store |-> insert(remove(s, node), key, value), ret |-> {value}]

RECURSIVE walk(_, _, _)
walk(s, at, seen) ==
    IF at = {} THEN <<>>
    ELSE LET n == unwrap(at)
         IN IF n = dummy_head \/ n \in seen \/ n \notin DOMAIN s.nodes THEN <<>>
            ELSE <<n>> \o walk(s, s.nodes[n].next, seen \cup {n})

(* The nodes linked between the sentinels, from the LRU end to the MRU end. *)
entries(s) == walk(s, s.nodes[dummy_tail].next, {dummy_tail})

RECURSIVE ascending(_)
ascending(S) ==
    IF S = {} THEN <<>>
    ELSE LET m == CHOOSE x \in S : \A y \in S : x <= y
         IN <<m>> \o ascending(S \ {m})

(* The address of a cell is never observed (no pointer is compared or     *)
(* printed), so stores that differ only in the addresses of their cells    *)
(* are the same store: after every call the cells are renumbered in list   *)
(* order (cells that are not on the list follow), the sentinels keeping    *)
(* their ids.                                                              *)
compact(s) ==
    LET e == entries(s)
        sentinels == {dummy_head, dummy_tail}
        off_list == DOMAIN s.nodes \ (sentinels \cup {e[i] : i \in 1..Len(e)})
        order == e \o ascending(off_list)
        to(n) == IF n \in sentinels THEN n
                 ELSE 2 + (CHOOSE i \in 1..Len(order) : order[i] = n)
        from(n) == IF n \in sentinels THEN n ELSE order[n - 2]
        moved(c) == [c EXCEPT !.next = {to(m) : m \in c.next},
                              !.prev = {to(m) : m \in c.prev}]
    IN [s EXCEPT
          !.nodes = [n \in sentinels \cup {2 + i : i \in 1..Len(order)} |->
                        moved(s.nodes[from(n)])],
          !.cache = [k \in DOMAIN s.cache |-> to(s.cache[k])]]

(* ------------------------------- state -------------------------------- *)
VARIABLES
    cache,          \* CacheLru.cache: key -> node id
    nodes,          \* the live Node cells: node id -> [next, prev, value, key]
    max_capacity,   \* CacheLru.max_capacity
    panicked,       \* an unwrap or a borrow has panicked
    op,             \* the last public call and what it did
    prev_op,        \* the public call before it, when that call touched a
                    \* resident key of a full store
    recency,        \* <<key, value of its latest insert>> of the max_capacity
                    \* keys touched last, oldest touch first
    inserted_keys,  \* the keys inserted so far
    fresh_inserts   \* Some(the <<key, value>> inserted so far) while the calls
                    \* so far are inserts of at most max_capacity + 1 distinct
                    \* keys and nothing else, else None

vars == <<cache, nodes, max_capacity, panicked, op, prev_op,
          recency, inserted_keys, fresh_inserts>>

store == [cache |-> cache, nodes |-> nodes,
          max_capacity |-> max_capacity, panicked |-> panicked]

value_of(s, key) ==
    IF key \in DOMAIN s.cache /\ s.cache[key] \in DOMAIN s.nodes
    THEN {s.nodes[s.cache[key]].value} ELSE {}

(* A sequence of <<key, value>> ordered by last touch that drops its      *)
(* first pair on overflow: a get of a key it holds and every insert is a   *)
(* touch, and an insert sets the value.                                    *)
move_to_end(seq, key, value) ==
    LET other(p) == p[1] # key IN Append(SelectSeq(seq, other), <<key, value>>)

touch_get(seq, key) ==
    IF \E i \in 1..Len(seq) : seq[i][1] = key
    THEN move_to_end(seq, key, seq[CHOOSE i \in 1..Len(seq) : seq[i][1] = key][2])
    ELSE seq

touch_insert(seq, key, value, cap) ==
    LET seq1 == move_to_end(seq, key, value)
    IN IF Len(seq1) > cap THEN Tail(seq1) ELSE seq1

(* What a call did, s being the store before it and s2 the store after:   *)
(* hit, the key was resident; changed, an insert gave it another value;    *)
(* full, the store held max_capacity keys; lru, the key was at the LRU     *)
(* end; evict, a key resident before the call is not resident after it.    *)
call(name, key, value, s, s2, ret) ==
    [name |-> name, key |-> key, value |-> value, ret |-> ret,
     hit |-> key \in DOMAIN s.cache,
     changed |-> (key \in DOMAIN s.cache /\ value # {} /\ value_of(s, key) # value),
     full |-> Cardinality(DOMAIN s.cache) = s.max_capacity,
     lru |-> (key \in DOMAIN s.cache /\ get_lru(s) = {s.cache[key]}),
     evict |-> DOMAIN s.cache \ DOMAIN s2.cache # {}]

(* What is kept of the call before the last one. *)
earlier(c) ==
    IF c.hit /\ c.full
    THEN [name |-> c.name, key |-> c.key, hit |-> c.hit, changed |-> c.changed,
          full |-> c.full, lru |-> c.lru]
    ELSE [name |-> "none", key |-> "", hit |-> FALSE, changed |-> FALSE,
          full |-> FALSE, lru |-> FALSE]

install(s) ==
    /\ cache' = s.cache
    /\ nodes' = s.nodes
    /\ max_capacity' = s.max_capacity
    /\ panicked' = s.panicked

no_call == [name |-> "none", key |-> "", value |-> {}, ret |-> {},
            hit |-> FALSE, changed |-> FALSE, full |-> FALSE, lru |-> FALSE,
            evict |-> FALSE]

Init ==
    \E cap \in Capacities :
        LET s == new(cap)
        IN /\ cache = s.cache
           /\ nodes = s.nodes
           /\ max_capacity = s.max_capacity
           /\ panicked = s.panicked
           /\ op = [no_call EXCEPT !.name = "new"]
           /\ prev_op = earlier(no_call)
           /\ recency = <<>>
           /\ inserted_keys = {}
           /\ fresh_inserts = {<<>>}

Get(key) ==
    /\ ~panicked
    /\ LET r == get(store, key)
       IN /\ install(compact(r.store))
          /\ op' = call("get", key, {}, store, r.store, r.ret)
    /\ prev_op' = earlier(op)
    /\ recency' = touch_get(recency, key)
    /\ fresh_inserts' = {}
    /\ UNCHANGED inserted_keys

Insert(key, value) ==
    /\ ~panicked
    /\ LET s2 == insert(store, key, value)
       IN /\ install(compact(s2))
          /\ op' = call("insert", key, {value}, store, s2, {})
    /\ prev_op' = earlier(op)
    /\ recency' = touch_insert(recency, key, value, max_capacity)
    /\ inserted_keys' = inserted_keys \cup {key}
    /\ fresh_inserts' =
         IF /\ fresh_inserts # {}
            /\ key \notin inserted_keys
            /\ Cardinality(inserted_keys) <= max_capacity
         THEN {Append(unwrap(fresh_inserts), <<key, value>>)}
         ELSE {}

Next ==
    \/ \E key \in Keys : Get(key)
    \/ \E key \in Keys, value \in Values : Insert(key, value)

Spec == Init /\ [][Next]_vars

(* ----------------------- reading the structure ----------------------- *)
entry_keys(s) == [i \in 1..Len(entries(s)) |-> s.nodes[entries(s)[i]].key]

resident(s) == DOMAIN s.cache

len(s) == Cardinality(DOMAIN s.cache)

index_of(seq, k) ==
    IF \E i \in 1..Len(seq) : seq[i] = k
    THEN CHOOSE i \in 1..Len(seq) : seq[i] = k
    ELSE 0

(* The keys of S whose last touch is the oldest. *)
oldest_touched(seq, S) ==
    {k \in S : \A j \in S : index_of(seq, k) <= index_of(seq, j)}

recency_keys == [i \in 1..Len(recency) |-> recency[i][1]]

(* The keys a step takes out of the index. *)
evicted == resident(store) \ resident(store')

(* The results of get on each key of ks in turn. *)
RECURSIVE get_all(_, _)
get_all(s, ks) ==
    IF ks = <<>> \/ s.panicked THEN <<>>
    ELSE LET r == get(s, Head(ks)) IN <<r.ret>> \o get_all(r.store, Tail(ks))

(* ------------------------------- claims ------------------------------- *)

(* C1: with a capacity of at least 1, the number of resident keys is at    *)
(* most max_capacity after every public operation.                         *)
C1_CapacityBound == max_capacity >= 1 => len(store) <= max_capacity

C1_Witness ==
    /\ max_capacity >= 1
    /\ op.name = "insert"
    /\ op.evict
    /\ len(store) = max_capacity

(* C2: the keys on the list, LRU end first, are the keys of a sequence     *)
(* ordered by last touch that drops its first key on overflow, and an      *)
(* insert that evicts a key evicts the resident key whose last touch is    *)
(* the oldest.                                                             *)
C2_Refines ==
    max_capacity >= 1 =>
        /\ entry_keys(store) = recency_keys
        /\ resident(store) = {entry_keys(store)[i] : i \in 1..Len(entry_keys(store))}

C2_EvictStep ==
    (max_capacity >= 1 /\ op'.name = "insert" /\ evicted # {})
        => evicted = oldest_touched(recency_keys, resident(store))

C2_LruOrder == []C2_Refines /\ [][C2_EvictStep]_vars

C2_Witness ==
    /\ max_capacity >= 2
    /\ op.name = "insert"
    /\ op.evict
    /\ prev_op.name = "get"
    /\ prev_op.hit

(* C3: on a new store of capacity C, after inserts of C+1 distinct keys    *)
(* and nothing else, get of the first key returns None and get of each of  *)
(* the others returns the value it was inserted with.                      *)
C3_EvictsFirstInserted ==
    \A h \in fresh_inserts :
        Len(h) = max_capacity + 1 =>
            LET rets == get_all(store, [i \in 1..Len(h) |-> h[i][1]])
            IN /\ Len(rets) = Len(h)
               /\ rets[1] = {}
               /\ \A i \in 2..Len(h) : rets[i] = {h[i][2]}

C3_Witness ==
    /\ max_capacity >= 2
    /\ \E h \in fresh_inserts : Len(h) = max_capacity + 1
    /\ op.evict

(* C4: in a full store of capacity at least 2, after a successful get(k)   *)
(* the next insert of a non-resident key keeps k and evicts the least      *)
(* recently touched of the other keys.                                     *)
C4_Step ==
    (/\ max_capacity >= 2
     /\ op.name = "get"
     /\ op.ret # {}
     /\ len(store) = max_capacity
     /\ op'.name = "insert"
     /\ op'.key \notin resident(store))
        => /\ op.key \in resident(store')
           /\ evicted = oldest_touched(recency_keys, resident(store) \ {op.key})
           /\ Cardinality(evicted) = 1

C4_GetProtects == [][C4_Step]_vars

(* k was at the LRU end before the get and is resident after the insert *)
C4_Witness ==
    /\ max_capacity >= 2
    /\ prev_op.name = "get"
    /\ prev_op.hit
    /\ prev_op.full
    /\ prev_op.lru
    /\ op.name = "insert"
    /\ ~op.hit
    /\ op.evict
    /\ prev_op.key \in resident(store)

(* C5: an insert of a resident key leaves the resident count and the       *)
(* resident set as they were, and get of the key then returns the new      *)
(* value.                                                                  *)
C5_Step ==
    (op'.name = "insert" /\ op'.key \in resident(store))
        => /\ len(store') = len(store)
           /\ resident(store') = resident(store)
           /\ evicted = {}
           /\ get(store', op'.key).ret = op'.value

C5_Overwrite == [][C5_Step]_vars

C5_Witness ==
    /\ op.name = "insert"
    /\ op.hit
    /\ op.changed
    /\ op.full
    /\ get(store, op.key).ret = op.value

(* C6: in a full store of capacity at least 2, after an insert of a        *)
(* resident key k the next insert of a non-resident key keeps k with its   *)
(* new value and evicts the least recently touched of the other keys.      *)
C6_Step ==
    (/\ max_capacity >= 2
     /\ op.name = "insert"
     /\ op.hit
     /\ len(store) = max_capacity
     /\ op'.name = "insert"
     /\ op'.key \notin resident(store))
        => /\ value_of(store', op.key) = op.value
           /\ evicted = oldest_touched(recency_keys, resident(store) \ {op.key})
           /\ Cardinality(evicted) = 1

C6_InsertTouches == [][C6_Step]_vars

C6_Witness ==
    /\ max_capacity >= 2
    /\ prev_op.name = "insert"
    /\ prev_op.hit
    /\ prev_op.changed
    /\ prev_op.full
    /\ op.name = "insert"
    /\ ~op.hit
    /\ op.evict
    /\ prev_op.key \in resident(store)

(* C7: with a capacity of at least 1, get(k) right after insert(k, v)      *)
(* returns v.                                                              *)
C7_RoundTrip ==
    (max_capacity >= 1 /\ op.name = "insert")
        => get(store, op.key).ret = op.value

C7_Witness ==
    /\ max_capacity >= 1
    /\ op.name = "insert"
    /\ ~op.hit
    /\ op.evict
    /\ get(store, op.key).ret = op.value

(* C8: get of a key that was never inserted returns None.                  *)
C8_Miss ==
    \A k \in Keys : k \notin inserted_keys => get(store, k).ret = {}

C8_Witness ==
    /\ op.name = "get"
    /\ op.key \notin inserted_keys
    /\ op.ret = {}
    /\ resident(store) # {}

(* C9 as stated: new(0) fails at construction, so a store of capacity 0    *)
(* is never usable.                                                        *)
C9_ZeroRejected == max_capacity = 0 => panicked

(* C9 as amended: new(0) does not fail; it returns a store with an empty   *)
(* index and the sentinels linked to each other, and the calls on it do    *)
(* not fail.                                                               *)
C9_ZeroAccepted ==
    max_capacity = 0 =>
        /\ ~panicked
        /\ op.name = "new" =>
              /\ resident(store) = {}
              /\ get_lru(store) = {dummy_head}
              /\ get_head(store) = {dummy_tail}

C9_Witness ==
    /\ max_capacity = 0
    /\ op.name = "insert"
    /\ ~panicked

(* C10: the keys of the index are the keys of the nodes between the        *)
(* sentinels, no two of these nodes have the same key, and the index maps  *)
(* each key to its node.                                                   *)
C10_IndexMatchesList ==
    LET e == entries(store)
    IN /\ {nodes[e[i]].key : i \in 1..Len(e)} = resident(store)
       /\ \A i, j \in 1..Len(e) : i # j => nodes[e[i]].key # nodes[e[j]].key
       /\ \A i \in 1..Len(e) :
             /\ nodes[e[i]].key \in resident(store)
             /\ cache[nodes[e[i]].key] = e[i]

C10_Witness ==
    /\ len(store) >= 2
    /\ op.hit
    /\ op.name \in {"get", "insert"}
    /\ op.key # nodes[unwrap(get_lru(store))].key

(* The number of links followed from node `from` to node `to`, through     *)
(* next (forward) or prev; -1 when `to` is not reached.                    *)
RECURSIVE hops(_, _, _, _, _)
hops(s, from, to, forward, seen) ==
    IF from = to THEN 0
    ELSE LET at == IF forward THEN s.nodes[from].next ELSE s.nodes[from].prev
         IN IF at = {} \/ unwrap(at) \in seen \/ unwrap(at) \notin DOMAIN s.nodes
            THEN -1
            ELSE LET rest == hops(s, unwrap(at), to, forward, seen \cup {from})
                 IN IF rest < 0 THEN -1 ELSE rest + 1

(* C11 as stated: next links lead from dummy_tail to dummy_head, and prev  *)
(* links from dummy_head to dummy_tail, in exactly as many steps as there  *)
(* are resident entries.                                                   *)
C11_LenSteps ==
    /\ hops(store, dummy_tail, dummy_head, TRUE, {}) = len(store)
    /\ hops(store, dummy_head, dummy_tail, FALSE, {}) = len(store)

(* C11 as amended: the walks take one step more than there are resident    *)
(* entries (they pass every entry once), and prev undoes next on every     *)
(* link between the sentinels.                                             *)
C11_ValidList ==
    /\ hops(store, dummy_tail, dummy_head, TRUE, {}) = len(store) + 1
    /\ hops(store, dummy_head, dummy_tail, FALSE, {}) = len(store) + 1
    /\ Len(entries(store)) = len(store)
    /\ \A n \in DOMAIN nodes \ {dummy_head} :
          /\ nodes[n].next # {}
          /\ nodes[unwrap(nodes[n].next)].prev = {n}

C11_Witness ==
    /\ len(store) >= 2
    /\ op.name = "get"
    /\ op.hit
    /\ prev_op.name = "insert"

(* C12: a get of a key that is not resident returns None and leaves the    *)
(* index, every node with its value and links, and so the node at the LRU  *)
(* end, as they were.                                                      *)
C12_Step ==
    (op'.name = "get" /\ op'.key \notin resident(store))
        => /\ op'.ret = {}
           /\ cache' = cache
           /\ nodes' = nodes
           /\ max_capacity' = max_capacity
           /\ get_lru(store') = get_lru(store)
           /\ entries(store') = entries(store)

C12_MissNoEffect == [][C12_Step]_vars

(* a miss on a key that was resident once, in a full store *)
C12_Witness ==
    /\ op.name = "get"
    /\ ~op.hit
    /\ op.ret = {}
    /\ op.key \in inserted_keys
    /\ max_capacity >= 1
    /\ len(store) = max_capacity

(* C13: a get leaves the set of resident keys and the value of every       *)
(* resident key as they were.                                              *)
C13_Step ==
    op'.name = "get"
        => /\ resident(store') = resident(store)
           /\ \A k \in Keys : value_of(store', k) = value_of(store, k)
           /\ evicted = {}

C13_GetKeepsResidents == [][C13_Step]_vars

(* a get that moves the key at the LRU end of a full store *)
C13_Witness ==
    /\ op.name = "get"
    /\ op.hit
    /\ op.full
    /\ op.lru
    /\ max_capacity >= 2
    /\ len(store) = max_capacity

(* The keys of seq that are in S, in the order of seq. *)
restricted(seq, S) == LET in_S(k) == k \in S IN SelectSeq(seq, in_S)

(* C14: with a capacity of at least 1, after a successful get(k) or an     *)
(* insert(k, v) the node of k is the one right before dummy_head, and the  *)
(* other keys that are still resident are in the order they were in.       *)
C14_Step ==
    (/\ max_capacity >= 1
     /\ \/ op'.name = "insert"
        \/ op'.name = "get" /\ op'.ret # {})
        => /\ op'.key \in resident(store')
           /\ get_head(store') = {cache'[op'.key]}
           /\ nodes'[cache'[op'.key]].key = op'.key
           /\ nodes'[cache'[op'.key]].next = {dummy_head}
           /\ restricted(entry_keys(store'), resident(store') \ {op'.key})
                = restricted(entry_keys(store), resident(store') \ {op'.key})

detached(s, key) == IF key \in DOMAIN s.cache THEN remove(s, s.cache[key]) ELSE s

linked(s, key, value) == link(detached(s, key), key, value)

(* C15: one eviction per overflow. For every key, inside the next insert   *)
(* of it (also the one a get makes) the index and the list hold at most    *)
(* max_capacity + 1 entries after the link, remove_lru then takes exactly  *)
(* one entry out when the count exceeds max_capacity and none otherwise,   *)
(* at most one key other than the inserted one leaves the index, and at    *)
(* most max_capacity entries are left. The counts do not depend on the     *)
(* value, so one value stands for all.                                     *)
C15_OneEviction ==
    /\ len(store) <= max_capacity
    /\ \A key \in Keys :
         LET mid == linked(store, key, 0)
             after == remove_lru(mid)
         IN /\ len(mid) <= max_capacity + 1
            /\ Len(entries(mid)) = len(mid)
            /\ Cardinality((resident(store) \ {key}) \ resident(after)) <= 1
            /\ Cardinality(resident(mid) \ resident(after)) <= 1
            /\ len(mid) <= max_capacity => resident(after) = resident(mid)
            /\ len(mid) > max_capacity => len(after) = len(mid) - 1
            /\ len(after) <= max_capacity
            /\ Len(entries(after)) = len(after)

C15_Witness ==
    /\ max_capacity >= 1
    /\ op.name = "insert"
    /\ ~op.hit
    /\ op.full
    /\ op.evict
    /\ len(store) = max_capacity

(* A node that remove can detach: both of its links are set, and neither   *)
(* is the node itself.                                                     *)
detachable(s, node) ==
    /\ node \in DOMAIN s.nodes
    /\ s.nodes[node].prev # {}
    /\ s.nodes[node].next # {}
    /\ unwrap(s.nodes[node].prev) # node
    /\ unwrap(s.nodes[node].next) # node

(* C16: no call panics. In every reachable state no call has panicked,     *)
(* the two sentinel reads succeed, every indexed node is detachable, and   *)
(* inside the next insert of any key the read of the head node succeeds    *)
(* after the detach and the victim at the LRU end is detachable after the  *)
(* link. The links do not depend on the value, so one value stands for     *)
(* all.                                                                    *)
C16_NoPanic ==
    /\ ~panicked
    /\ get_lru(store) # {}
    /\ get_head(store) # {}
    /\ \A k \in DOMAIN cache : detachable(store, cache[k])
    /\ \A k \in Keys :
         LET s1 == detached(store, k)
             mid == link(s1, k, 0)
         IN /\ ~s1.panicked
            /\ get_head(s1) # {}
            /\ ~mid.panicked
            /\ get_lru(mid) # {}
            /\ detachable(mid, unwrap(get_lru(mid)))

(* an insert evicted a key right after a successful get on the full store  *)
C16_Witness ==
    /\ ~panicked
    /\ op.name = "insert"
    /\ op.evict
    /\ prev_op.name = "get"
    /\ prev_op.hit
    /\ len(store) = max_capacity

sentinels == {dummy_head, dummy_tail}

labels == {"@dummy_head@", "@dummy_tail@"}

(* C17: the sentinels are never entries. They are not in the index and not *)
(* counted, they keep their label, their value 0 and their open outer      *)
(* link, the victim of the next eviction is never one of them, and a key   *)
(* equal to a label is looked up like every other key: it is resident      *)
(* exactly when the recency order of the calls holds it, in its own cell,  *)
(* and get returns the value of that cell.                                 *)
C17_SentinelsApart ==
    /\ \A k \in DOMAIN cache : cache[k] \notin sentinels
    /\ len(store) = Cardinality(DOMAIN nodes \ sentinels)
    /\ len(store) = Len(entries(store))
    /\ nodes[dummy_head].key = "@dummy_head@"
    /\ nodes[dummy_tail].key = "@dummy_tail@"
    /\ nodes[dummy_head].value = 0
    /\ nodes[dummy_tail].value = 0
    /\ nodes[dummy_head].next = {}
    /\ nodes[dummy_tail].prev = {}
    /\ \A k \in Keys :
         LET mid == linked(store, k, 0)
         IN len(mid) > max_capacity => get_lru(mid) \cap sentinels = {}
    /\ \A k \in labels \cap Keys :
         /\ k \notin inserted_keys => get(store, k).ret = {}
         /\ max_capacity >= 1 =>
              (k \in resident(store)
                 <=> \E i \in 1..Len(recency) : recency[i][1] = k)
         /\ k \in resident(store) =>
              /\ nodes[cache[k]].key = k
              /\ get(store, k).ret = {nodes[cache[k]].value}
              /\ \E i \in 1..Len(recency) :
                    recency[i] = <<k, nodes[cache[k]].value>>

(* one label key is resident with value 1 after a successful get, and the  *)
(* other label key was inserted and evicted                                *)
C17_Witness ==
    /\ max_capacity >= 1
    /\ op.name = "get"
    /\ op.key \in labels
    /\ op.ret = {1}
    /\ \E k \in labels : k \in inserted_keys /\ k \notin resident(store)
    /\ len(store) = max_capacity

(* C18: a get that returns a value returns the value of the most recent    *)
(* insert of its key. The value a get of k would return is the one the     *)
(* recency order of the calls holds for k, which insert(k, v) sets to v    *)
(* and which no other call changes; right after insert(k, v) a get of k    *)
(* returns v, and right after a successful get of k a second get of k      *)
(* returns the same value.                                                 *)
C18_LatestValue ==
    /\ \A k \in Keys :
          LET now == get(store, k).ret
          IN now # {} =>
                /\ k \in inserted_keys
                /\ \E i \in 1..Len(recency) : recency[i] = <<k, unwrap(now)>>
                /\ \A i \in 1..Len(recency) :
                      recency[i][1] = k => recency[i][2] = unwrap(now)
    /\ op.name = "insert" => get(store, op.key).ret \subseteq op.value
    /\ (op.name = "insert" /\ max_capacity >= 1)
          => get(store, op.key).ret = op.value
    /\ (op.name = "get" /\ op.ret # {}) => get(store, op.key).ret = op.ret

(* a key was promoted by two successful gets in a row on a full store that *)
(* holds another value under another key                                   *)
C18_Witness ==
    /\ max_capacity >= 2
    /\ len(store) = max_capacity
    /\ op.name = "get"
    /\ op.ret = {1}
    /\ prev_op.name = "get"
    /\ prev_op.key = op.key
    /\ \E k \in resident(store) : value_of(store, k) = {0}

(* A store without entries: empty index, only the two sentinels, linked    *)
(* to each other.                                                          *)
empty(s) ==
    /\ DOMAIN s.cache = {}
    /\ DOMAIN s.nodes = sentinels
    /\ get_lru(s) = {dummy_head}
    /\ get_head(s) = {dummy_tail}
    /\ s.nodes[dummy_head].next = {}
    /\ s.nodes[dummy_tail].prev = {}

(* C19: a store of capacity 0 is always empty. After every call the index  *)
(* is empty and the sentinels are linked to each other, every get returns  *)
(* None and changes nothing, every insert links its node, finds it at the  *)
(* LRU end and evicts it in the same call, and nothing panics.             *)
C19_ZeroAlwaysEmpty ==
    max_capacity = 0 =>
        /\ ~panicked
        /\ empty(store)
        /\ recency = <<>>
        /\ op.ret = {}
        /\ \A k \in Keys :
             /\ get(store, k).ret = {}
             /\ get(store, k).store = store
             /\ \A v \in Values :
                  LET mid == linked(store, k, v)
                  IN /\ ~mid.panicked
                     /\ DOMAIN mid.cache = {k}
                     /\ mid.nodes[mid.cache[k]].key = k
                     /\ mid.nodes[mid.cache[k]].value = v
                     /\ get_lru(mid) = {mid.cache[k]}
                     /\ get_head(mid) = {mid.cache[k]}
                     /\ insert(store, k, v) = remove(mid, mid.cache[k])
                     /\ ~insert(store, k, v).panicked
                     /\ empty(insert(store, k, v))

(* on capacity 0, a get of a key that was inserted earlier, after inserts  *)
(* of two keys                                                             *)
C19_Witness ==
    /\ max_capacity = 0
    /\ op.name = "get"
    /\ op.key \in inserted_keys
    /\ Cardinality(inserted_keys) >= 2
    /\ ~op.hit
    /\ ~panicked

(* C20: the resident count never decreases. A get and an insert of a       *)
(* resident key leave it unchanged, an insert of a key that is not         *)
(* resident adds one below max_capacity and leaves it unchanged on a full  *)
(* store, and a count equal to max_capacity stays equal to it.             *)
C20_Step ==
    LET before == len(store)
        after == len(store')
    IN /\ after >= before
       /\ op'.name = "get" => after = before
       /\ (op'.name = "insert" /\ op'.key \in resident(store))
             => after = before
       /\ (op'.name = "insert" /\ op'.key \notin resident(store)
             /\ before < max_capacity)
             => after = before + 1
       /\ (op'.name = "insert" /\ op'.key \notin resident(store)
             /\ before >= max_capacity)
             => after = before
       /\ before = max_capacity => after = max_capacity'
       /\ max_capacity' = max_capacity

C20_CountMonotone == [][C20_Step]_vars

(* a key that is not resident was inserted into a full store right after   *)
(* an insert of a resident key                                             *)
C20_Witness ==
    /\ max_capacity >= 2
    /\ len(store) = max_capacity
    /\ op.name = "insert"
    /\ ~op.hit
    /\ op.full
    /\ prev_op.name = "insert"
    /\ prev_op.hit

=============================================================================
